---- MODULE Spec2Model ----
(***************************************************************************)
(* Background delegation engine of the BMAD orchestrator                   *)
(* (src/src/modules/orchestrator/lib/delegation.js): the SessionManager    *)
(* and the DelegationQueue.  The controller is a single-threaded event     *)
(* loop: every `await` of the source splits a method into atomic steps,    *)
(* and one action below is one such step (the code that runs between two   *)
(* awaits).  A file-system write takes effect in the step that resumes     *)
(* the awaiting method.                                                    *)
(***************************************************************************)
EXTENDS Integers, Sequences, FiniteSets, TLC

VARIABLES
  sessions,     \* SessionManager.sessions: the in-memory Map id -> session
  initialized,  \* SessionManager.initialized
  disk,         \* ~/.bmad/sessions/<id>/: directory, task.json, status.json, result.json
  proc,         \* the worker process of each session, as the OS sees it
  listener,     \* whether child.on('exit') is registered for the session
  timer,        \* the setTimeout of spawnSession, per session
  call,         \* the spawnSession call in flight for each task
  killOp,       \* the killSession call awaiting its writeStatus, per session
  exitOp,       \* the handleExit call awaiting its writes, per session
  queue,        \* DelegationQueue.queue
  processing,   \* DelegationQueue.processing
  loops,        \* processQueue calls that are inside their `while` loop
  drain,        \* where processQueue is suspended
  now,          \* the wall clock read by new Date()
  nextId,       \* session identifiers handed out so far
  submitted,    \* tasks submitted so far
  restarts,     \* controller restarts so far
  outbuf,       \* session.output of the object spawnSession created, per session
  appends,      \* the appendFile calls on output.txt still in flight, per session
  userKills,    \* killSession calls made by callers so far
  faults,       \* file-system operations that have failed so far
  recovered,    \* ids whose directory existed when the controller last started
  hist,         \* history: the distinct status values written to status.json, in order
  killLog,      \* history: the values returned by killSession, per session, in order
  enqResult,    \* history: what enqueue(task) returned
  admitted,     \* history: tasks in the order their sessions were created
  queuedSeq,    \* history: tasks in the order they were appended to the queue
  behind,       \* history: tasks enqueue was called with while entries were waiting
  cleanOp,      \* the cleanup() call in flight
  listOp        \* the listSessions() call in flight, and what the last one returned

vars == <<sessions, initialized, disk, proc, listener, timer, call, killOp, exitOp,
          queue, processing, loops, drain, now, nextId, submitted,
          restarts, behind, outbuf, appends, userKills,
          faults, recovered, hist, killLog, enqResult, admitted, queuedSeq,
          cleanOp, listOp>>

-----------------------------------------------------------------------------
\* Bounds of the model.
MaxTasks == 3
MaxRaceTasks == 2
MaxClockTasks == 1
MaxTime == 1
MaxRestarts == 1
MaxUserKills == 2
MaxFaults == 1
MaxCleanups == 1
MaxLists == 1
MaxChunks == 2

\* config.maxConcurrentSessions (a configuration option; the scenario of the
\* specification uses a cap of 1).
maxConcurrentSessions == 1

\* config.cleanupAfterMs (a configuration option; the scenario of the
\* specification uses a retention window of 0).
cleanupAfterMs == 0

Tasks == 1..MaxTasks
Ids == 1..MaxTasks

\* JavaScript's null and a property that is not there: for the numeric fields
\* (timestamps, pid, exit code) and for the string fields.
Null == -1
AbsentN == -2
Absent == "absent"

\* No entry in the Map, no such file, no call in flight, a null return value.
NoSession == [none |-> "session"]
NoFile == [none |-> "file"]
NoOp == [none |-> "op"]
NullResult == [none |-> "null"]

\* An empty place in the sessions directory.
NoDir ==
  [dir |-> FALSE, taskFile |-> FALSE, status |-> NoFile, result |-> NoFile,
   output |-> NoFile]

\* DELEGATION_STATUS
PENDING == "pending"
SPAWNING == "spawning"
RUNNING == "running"
COMPLETED == "completed"
FAILED == "failed"
KILLED == "killed"
TIMEOUT == "timeout"

Terminal == {COMPLETED, FAILED, KILLED, TIMEOUT}
NonTerminal == {PENDING, SPAWNING, RUNNING}

\* Exit codes a worker can end with by itself; a worker ended by a signal
\* reports the code null.
ExitCodes == {0, 2}

\* task.projectId and child.pid of the model's tasks and sessions.
ProjectOf(t) == IF t % 2 = 1 THEN "p" ELSE "q"
PidOf(id) == id

-----------------------------------------------------------------------------
\* The status object built by spawnSession.
SpawnStatus(id, t, startedAt, st, pid) ==
  [id |-> id, status |-> st, task |-> t, projectId |-> ProjectOf(t),
   startedAt |-> startedAt, completedAt |-> Null, pid |-> pid,
   exitCode |-> AbsentN, killReason |-> Absent]

\* The session object stored in the Map by spawnSession.
SpawnSessionRec(id, t, startedAt) ==
  [id |-> id, status |-> RUNNING, task |-> t, projectId |-> ProjectOf(t),
   startedAt |-> startedAt, completedAt |-> Null, pid |-> PidOf(id),
   exitCode |-> AbsentN, killReason |-> Absent, child |-> TRUE]

\* Mutant of the loaded session: it claims a process handle.
LoadedSessionWithHandle(id, st) ==
  [id |-> st.id, status |-> st.status, task |-> st.task, projectId |-> st.projectId,
   startedAt |-> st.startedAt, completedAt |-> st.completedAt, pid |-> st.pid,
   exitCode |-> st.exitCode, killReason |-> st.killReason, child |-> TRUE]

\* The session object loadExistingSessions builds from a status document.
LoadedSession(id, st) ==
  [id |-> st.id, status |-> st.status, task |-> st.task, projectId |-> st.projectId,
   startedAt |-> st.startedAt, completedAt |-> st.completedAt, pid |-> st.pid,
   exitCode |-> st.exitCode, killReason |-> st.killReason, child |-> FALSE]

\* Mutant of the filter: inverted.
LoadsStatusInverted(st) == st.status = COMPLETED \/ st.status = FAILED

\* The filter of loadExistingSessions: which status documents are loaded.
LoadsStatus(st) == st.status # COMPLETED /\ st.status # FAILED

\* The status document written by handleExit.
ExitStatus(id, s, finalStatus, exitCode) ==
  [id |-> id, status |-> finalStatus, task |-> s.task, projectId |-> s.projectId,
   startedAt |-> s.startedAt, completedAt |-> s.completedAt, pid |-> s.pid,
   exitCode |-> exitCode, killReason |-> Absent]

\* The status document written by killSession.
KillStatus(id, s, reason) ==
  [id |-> id, status |-> s.status, task |-> s.task, projectId |-> Absent,
   startedAt |-> s.startedAt, completedAt |-> s.completedAt, pid |-> AbsentN,
   exitCode |-> AbsentN, killReason |-> reason]

\* Mutant of the final status: the session is left 'running'.
FinalStatusRunning(exitCode) == RUNNING

\* handleExit: the final status for an exit code.
FinalStatus(exitCode) == IF exitCode = 0 THEN COMPLETED ELSE FAILED

\* killSession: the status for a reason.
KilledStatus(reason) == IF reason = "timeout" THEN TIMEOUT ELSE KILLED

\* spawnSession: the number of sessions of the Map whose status is running.
RunningCount(s) == Cardinality({id \in Ids : s[id] # NoSession /\ s[id].status = RUNNING})

\* Mutants of the capacity test: a strict comparison, and a count of every
\* session of the Map whatever its status.
AtCapacityStrict(s) == RunningCount(s) > maxConcurrentSessions
AtCapacityCountsAll(s) ==
  Cardinality({id \in Ids : s[id] # NoSession}) >= maxConcurrentSessions

\* spawnSession: the test that rejects the call for capacity.
AtCapacity(s) == RunningCount(s) >= maxConcurrentSessions

\* Mutant of killSession's test: the status is not looked at.
CanKillAnyStatus(s) == s # NoSession /\ s.child

\* killSession: the test that lets the call act.
CanKill(s) == s # NoSession /\ s.child /\ s.status = RUNNING

\* checkStatus: the in-memory session if there is one, else the status document.
checkStatus(id) ==
  IF sessions[id] # NoSession
  THEN [id |-> id, status |-> sessions[id].status, task |-> sessions[id].task,
        startedAt |-> sessions[id].startedAt, completedAt |-> sessions[id].completedAt,
        pid |-> sessions[id].pid]
  ELSE IF disk[id].status # NoFile THEN disk[id].status ELSE NullResult

\* getResult: the result document if there is one, else null.
getResult(id) == IF disk[id].result # NoFile THEN disk[id].result ELSE NullResult

\* output.txt with the chunks `text` in it.
OutFile(text) == [text |-> text]

\* getOutput: the content of output.txt if the file can be read, else ''.
getOutput(id) == IF disk[id].output # NoFile THEN disk[id].output.text ELSE <<>>

\* The history of distinct values of status.json after one more write.
Recorded(h, st) == IF h # <<>> /\ h[Len(h)] = st THEN h ELSE Append(h, st)

\* fs.writeFile(status.json): the document and its recorded history.
WriteStatusTo(d, id, rec) == [d EXCEPT ![id].status = rec]

IdleCall == [pc |-> "idle", by |-> "none", sid |-> 0, startedAt |-> 0, scan |-> {}, cur |-> 0]

\* The synchronous start of spawnSession: init() returns at once when the
\* manager is initialized, and otherwise awaits fs.mkdir(sessionsDir).
StartCall(by) ==
  [pc |-> IF initialized THEN "init" ELSE "init_mkdir", by |-> by, sid |-> 0,
   startedAt |-> 0, scan |-> {}, cur |-> 0]

QueueEntry(t) == [id |-> t, task |-> t, addedAt |-> now]

\* What enqueue resolved with: {queued: false, sessionId}, {queued: true,
\* queueId, position}, or the error it rethrew.
EnqResult(kind, sessionId, queueId, position) ==
  [kind |-> kind, queued |-> (kind = "queued"), sessionId |-> sessionId,
   queueId |-> queueId, position |-> position]
NoResult == EnqResult("none", 0, 0, 0)

\* No cleanup() call in flight; one in flight holds its cutoff, the directory
\* entries still to visit and the entry being visited.
IdleClean == [pc |-> "idle", cutoff |-> 0, scan |-> {}, cur |-> 0, runs |-> 0]

\* listSessions called without a filter on a property.
NoFilter == "any"

\* No listSessions() call in flight; one in flight holds its filter, the
\* array built so far, the directory entries still to visit and the entry
\* being visited.  `out` keeps what the last call returned, and `must` is
\* history: the sessions that matched the filter ever since the call started.
IdleList ==
  [pc |-> "idle", filter |-> [status |-> NoFilter, projectId |-> NoFilter],
   acc |-> <<>>, scan |-> {}, cur |-> 0, out |-> <<>>, calls |-> 0, must |-> {}]

Init ==
  /\ sessions = [id \in Ids |-> NoSession]
  /\ initialized = FALSE
  /\ disk = [id \in Ids |-> NoDir]
  /\ proc = [id \in Ids |-> [state |-> "none", signaled |-> FALSE, code |-> AbsentN]]
  /\ listener = [id \in Ids |-> FALSE]
  /\ timer = [id \in Ids |-> "none"]
  /\ call = [t \in Tasks |-> IdleCall]
  /\ killOp = [id \in Ids |-> NoOp]
  /\ exitOp = [id \in Ids |-> NoOp]
  /\ queue = <<>>
  /\ processing = FALSE
  /\ loops = 0
  /\ drain = "idle"
  /\ now = 0
  /\ nextId = 1
  /\ submitted = 0
  /\ restarts = 0
  /\ outbuf = [id \in Ids |-> <<>>]
  /\ appends = [id \in Ids |-> {}]
  /\ userKills = 0
  /\ faults = 0
  /\ recovered = {}
  /\ hist = [id \in Ids |-> <<>>]
  /\ killLog = [id \in Ids |-> <<>>]
  /\ enqResult = [t \in Tasks |-> NoResult]
  /\ admitted = <<>>
  /\ queuedSeq = <<>>
  /\ behind = {}
  /\ cleanOp = IdleClean
  /\ listOp = IdleList

-----------------------------------------------------------------------------
\* How a spawnSession call ends, seen from its caller (a direct caller,
\* DelegationQueue.enqueue or DelegationQueue.processQueue).

Ended(t, pc) == [call EXCEPT ![t].pc = pc]

\* Mutant of the loop test: the loop leaves the last entry.
HasEntriesButOne(q) == Len(q) > 1

\* processQueue: the test of its `while` loop.
HasEntries(q) == Len(q) > 0

\* processQueue from its `while` test on, with n calls inside their loop: with
\* a non-empty queue q it calls spawnSession for the head entry and awaits it,
\* else it clears `processing` and returns.
DrainLoop(q, c, n) ==
  IF HasEntries(q)
  THEN /\ call' = [c EXCEPT ![q[1].task] = StartCall("drain")]
       /\ processing' = TRUE
       /\ loops' = n
       /\ drain' = "spawn"
  ELSE /\ call' = c
       /\ processing' = FALSE
       /\ loops' = n - 1
       /\ drain' = "idle"

\* Mutant of the guard: the flag is not looked at.
DrainActiveNever(p) == FALSE

\* processQueue: the `this.processing` half of its guard.
DrainActive(p) == p

\* processQueue() as enqueue calls it: it returns at once when a drain loop is
\* active or the queue is empty, and enters its loop otherwise.
processQueue(q, c) ==
  IF DrainActive(processing) \/ Len(q) = 0
  THEN call' = c /\ UNCHANGED <<processing, loops, drain>>
  ELSE DrainLoop(q, c, loops + 1)

\* Mutant of the push: the entry is put at the front.
PushFront(q, e) == <<e>> \o q

\* enqueue: this.queue.push(entry).
Push(q, e) == Append(q, e)

\* Mutant of the position: 0-based.
PositionZeroBased(q) == Len(q) - 1

\* enqueue: the position it reports after the push and the processQueue() call.
Position(q) == Len(q)

\* Mutant of the shift: the admitted entry stays at the head.
ShiftNone(q) == q

\* processQueue: this.queue.shift() after a successful admission.
Shift(q) == Tail(q)

\* Mutant of the drop: the head entry stays.
KeepHead(q) == q

\* processQueue: this.queue.shift() after a failure that is not the capacity
\* error.
DropHead(q) == Tail(q)

\* spawnSession(task) resolves with the session id.
Returns(t) ==
  CASE call[t].by = "direct" ->
         /\ call' = Ended(t, "returned")
         /\ UNCHANGED <<queue, processing, loops, drain, enqResult, queuedSeq>>
    [] call[t].by = "enqueue" ->
         /\ call' = Ended(t, "returned")
         /\ enqResult' = [enqResult EXCEPT ![t] =
                            EnqResult("spawned", call[t].sid, 0, 0)]
         /\ UNCHANGED <<queue, processing, loops, drain, queuedSeq>>
    [] call[t].by = "drain" ->
         /\ queue' = Shift(queue)
         /\ DrainLoop(Shift(queue), Ended(t, "returned"), loops)
         /\ UNCHANGED <<enqResult, queuedSeq>>

\* Mutant of the test of the error: every error is taken for the capacity error.
IsCapacityErrorAny(err) == TRUE

\* enqueue, processQueue: error.message.includes('Maximum concurrent sessions').
IsCapacityError(err) == err = "capacity"

\* spawnSession(task) rejects: err is "capacity" for the 'Maximum concurrent
\* sessions' error and "error" for any other.
Throws(t, err) ==
  CASE call[t].by = "direct" ->
         /\ call' = Ended(t, err)
         /\ UNCHANGED <<queue, processing, loops, drain, enqResult, queuedSeq>>
    [] call[t].by = "enqueue" /\ IsCapacityError(err) ->
         /\ queue' = Push(queue, QueueEntry(t))
         /\ queuedSeq' = Append(queuedSeq, t)
         /\ processQueue(Push(queue, QueueEntry(t)), Ended(t, err))
         /\ enqResult' = [enqResult EXCEPT ![t] =
                            EnqResult("queued", 0, t, Position(Push(queue, QueueEntry(t))))]
    [] call[t].by = "enqueue" /\ ~IsCapacityError(err) ->
         /\ call' = Ended(t, err)
         /\ enqResult' = [enqResult EXCEPT ![t] = EnqResult("thrown", 0, 0, 0)]
         /\ UNCHANGED <<queue, processing, loops, drain, queuedSeq>>
    [] call[t].by = "drain" /\ IsCapacityError(err) ->
         /\ call' = Ended(t, err)
         /\ drain' = "backoff"
         /\ UNCHANGED <<queue, processing, loops, enqResult, queuedSeq>>
    [] call[t].by = "drain" /\ ~IsCapacityError(err) ->
         /\ queue' = DropHead(queue)
         /\ DrainLoop(DropHead(queue), Ended(t, err), loops)
         /\ UNCHANGED <<enqResult, queuedSeq>>

-----------------------------------------------------------------------------
\* SessionManager.spawnSession, one action per await.

\* After `await this.init()`, with s the Map as init() left it: the capacity
\* check, the new session id and the request to create the session directory.
\* id is what crypto.randomBytes(8) gave for the session id.
AdmissionAs(t, s, id) ==
  /\ sessions' = s
  /\ IF AtCapacity(s)
     THEN /\ Throws(t, "capacity")
          /\ UNCHANGED <<nextId, admitted>>
     ELSE /\ call' = [call EXCEPT ![t].pc = "mkdir", ![t].sid = id,
                                  ![t].scan = {}, ![t].cur = 0]
          /\ nextId' = nextId + 1
          /\ admitted' = Append(admitted, t)
          /\ UNCHANGED <<queue, processing, loops, drain, enqResult, queuedSeq>>

\* spawnSession with a random draw that differs from every earlier draw (what
\* all specifications but IdSpec take the draws to be).
Admission(t, s) == AdmissionAs(t, s, nextId)

\* init() found the manager initialized: spawnSession resumes at its check.
SpawnAfterInit(t) ==
  /\ call[t].pc = "init"
  /\ Admission(t, sessions)
  /\ UNCHANGED <<initialized, disk, proc, listener, timer, killOp, exitOp, now,
                 submitted, restarts, behind, outbuf, appends,
                 cleanOp, listOp, userKills, faults, recovered, hist, killLog>>

\* The same step with the random draw left open: any value of the id space,
\* whether or not a session already has it.
SpawnAfterInitAnyId(t) ==
  /\ call[t].pc = "init"
  /\ \E id \in Ids : AdmissionAs(t, sessions, id)
  /\ UNCHANGED <<initialized, disk, proc, listener, timer, killOp, exitOp, now,
                 submitted, restarts, behind, outbuf, appends,
                 cleanOp, listOp, userKills, faults, recovered, hist, killLog>>

\* init(): fs.mkdir(sessionsDir) is done; loadExistingSessions asks for readdir.
InitMkdirDone(t) ==
  /\ call[t].pc = "init_mkdir"
  /\ call' = [call EXCEPT ![t].pc = "init_readdir"]
  /\ UNCHANGED <<sessions, initialized, disk, proc, listener, timer, killOp, exitOp,
                 queue, processing, loops, drain, now, nextId, submitted,
                 restarts, behind, outbuf, appends,
                 cleanOp, listOp, userKills,
                 faults, recovered, hist, killLog, enqResult, admitted, queuedSeq>>

\* loadExistingSessions: readdir answers with the session directories; the
\* loop asks for the first status.json, or, with none, init() finishes.
InitReaddirDone(t) ==
  /\ call[t].pc = "init_readdir"
  /\ LET entries == {id \in Ids : disk[id].dir} IN
     IF entries = {}
     THEN /\ initialized' = TRUE
          /\ Admission(t, sessions)
     ELSE /\ \E e \in entries :
               call' = [call EXCEPT ![t].pc = "init_scan", ![t].cur = e,
                                    ![t].scan = entries \ {e}]
          /\ UNCHANGED <<sessions, initialized, queue, processing, loops, drain, nextId,
                         enqResult, admitted, queuedSeq>>
  /\ UNCHANGED <<disk, proc, listener, timer, killOp, exitOp, now,
                 submitted, restarts, behind, outbuf, appends,
                 cleanOp, listOp, userKills, faults, recovered, hist, killLog>>

\* loadExistingSessions: the Map after the status document of entry e was read.
Loaded(s, e) ==
  IF disk[e].status # NoFile /\ LoadsStatus(disk[e].status)
  THEN [s EXCEPT ![e] = LoadedSession(e, disk[e].status)]
  ELSE s

\* loadExistingSessions: one status.json was read; the loop goes on to the
\* next entry, or init() finishes and spawnSession resumes at its check.
InitReadFileDone(t) ==
  /\ call[t].pc = "init_scan"
  /\ LET s == Loaded(sessions, call[t].cur) IN
     IF call[t].scan = {}
     THEN /\ initialized' = TRUE
          /\ Admission(t, s)
     ELSE /\ sessions' = s
          /\ \E e \in call[t].scan :
               call' = [call EXCEPT ![t].cur = e, ![t].scan = call[t].scan \ {e}]
          /\ UNCHANGED <<initialized, queue, processing, loops, drain, nextId,
                         enqResult, admitted, queuedSeq>>
  /\ UNCHANGED <<disk, proc, listener, timer, killOp, exitOp, now,
                 submitted, restarts, behind, outbuf, appends,
                 cleanOp, listOp, userKills, faults, recovered, hist, killLog>>

\* fs.mkdir(sessionDir) is done; task.json is being written.
SpawnMkdirDone(t) ==
  /\ call[t].pc = "mkdir"
  /\ disk' = [disk EXCEPT ![call[t].sid].dir = TRUE]
  /\ call' = [call EXCEPT ![t].pc = "task"]
  /\ UNCHANGED <<sessions, initialized, proc, listener, timer, killOp, exitOp,
                 queue, processing, loops, drain, now, nextId, submitted,
                 restarts, behind, outbuf, appends,
                 cleanOp, listOp, userKills,
                 faults, recovered, hist, killLog, enqResult, admitted, queuedSeq>>

\* fs.mkdir(sessionDir) fails: spawnSession rejects with the file system's error.
SpawnMkdirFails(t) ==
  /\ call[t].pc = "mkdir"
  /\ faults < MaxFaults
  /\ faults' = faults + 1
  /\ Throws(t, "error")
  /\ UNCHANGED <<sessions, initialized, disk, proc, listener, timer, killOp, exitOp,
                 now, nextId, submitted, restarts, behind, outbuf, appends,
                 cleanOp, listOp, userKills, recovered, hist, killLog,
                 admitted>>

\* fs.writeFile(task.json) fails: spawnSession rejects with the file system's error.
SpawnTaskFails(t) ==
  /\ call[t].pc = "task"
  /\ faults < MaxFaults
  /\ faults' = faults + 1
  /\ Throws(t, "error")
  /\ UNCHANGED <<sessions, initialized, disk, proc, listener, timer, killOp, exitOp,
                 now, nextId, submitted, restarts, behind, outbuf, appends,
                 cleanOp, listOp, userKills, recovered,
                 hist, killLog, admitted>>

\* task.json is written; the status object is built (startedAt = now) and
\* status.json is being written with status 'spawning'.
SpawnTaskDone(t) ==
  /\ call[t].pc = "task"
  /\ disk' = [disk EXCEPT ![call[t].sid].taskFile = TRUE]
  /\ call' = [call EXCEPT ![t].pc = "spawning", ![t].startedAt = now]
  /\ UNCHANGED <<sessions, initialized, proc, listener, timer, killOp, exitOp,
                 queue, processing, loops, drain, now, nextId, submitted,
                 restarts, behind, outbuf, appends,
                 cleanOp, listOp, userKills,
                 faults, recovered, hist, killLog, enqResult, admitted, queuedSeq>>

\* The write of status.json with 'spawning' fails: spawnSession rejects before
\* it launches the worker.
SpawnStatusFails(t) ==
  /\ call[t].pc = "spawning"
  /\ faults < MaxFaults
  /\ faults' = faults + 1
  /\ Throws(t, "error")
  /\ UNCHANGED <<sessions, initialized, disk, proc, listener, timer, killOp, exitOp,
                 now, nextId, submitted, restarts, behind, outbuf, appends,
                 cleanOp, listOp, userKills, recovered,
                 hist, killLog, admitted>>

\* status.json holds 'spawning' and the worker program cannot be started.
\* Either spawn() throws, and spawnSession rejects with that error; or spawn()
\* returns a ChildProcess without a pid that will emit 'error' and never
\* 'exit', and spawnSession goes on as after a launch: the session is put in
\* the Map as 'running' and status.json is being written with 'running'.
\* (No listener is registered for 'error': an embedding program that does not
\* handle uncaught exceptions stops there, which is Restart.)
SpawnLaunchFails(t) ==
  /\ call[t].pc = "spawning"
  /\ faults < MaxFaults
  /\ faults' = faults + 1
  /\ LET id == call[t].sid IN
     /\ disk' = WriteStatusTo(disk, id, SpawnStatus(id, t, call[t].startedAt, SPAWNING, Null))
     /\ hist' = [hist EXCEPT ![id] = Recorded(hist[id], SPAWNING)]
     /\ proc' = [proc EXCEPT ![id] = [state |-> "nolaunch", signaled |-> FALSE, code |-> AbsentN]]
     /\ \/ /\ Throws(t, "error")
           /\ UNCHANGED sessions
        \/ /\ sessions' = [sessions EXCEPT ![id] =
                             [SpawnSessionRec(id, t, call[t].startedAt) EXCEPT !.pid = AbsentN]]
           /\ call' = [call EXCEPT ![t].pc = "running"]
           /\ UNCHANGED <<queue, processing, loops, drain, enqResult, queuedSeq>>
  /\ UNCHANGED <<initialized, listener, timer, killOp, exitOp, now, nextId, submitted,
                 restarts, behind, outbuf, appends,
                 cleanOp, listOp, userKills, recovered, killLog, admitted>>

\* status.json holds 'spawning'; the worker is launched, the session is put in
\* the Map as 'running', and status.json is being written with 'running'.
SpawnStatusDone(t) ==
  /\ call[t].pc = "spawning"
  /\ LET id == call[t].sid IN
     /\ disk' = WriteStatusTo(disk, id, SpawnStatus(id, t, call[t].startedAt, SPAWNING, Null))
     /\ hist' = [hist EXCEPT ![id] = Recorded(hist[id], SPAWNING)]
     /\ proc' = [proc EXCEPT ![id] = [state |-> "alive", signaled |-> FALSE, code |-> AbsentN]]
     /\ sessions' = [sessions EXCEPT ![id] = SpawnSessionRec(id, t, call[t].startedAt)]
  /\ call' = [call EXCEPT ![t].pc = "running"]
  /\ UNCHANGED <<initialized, listener, timer, killOp, exitOp,
                 queue, processing, loops, drain, now, nextId, submitted,
                 restarts, behind, outbuf, appends,
                 cleanOp, listOp, userKills,
                 faults, recovered, killLog, enqResult, admitted, queuedSeq>>

\* child.pid: undefined when the worker program could not be started.
ChildPid(id) == IF proc[id].state = "nolaunch" THEN AbsentN ELSE PidOf(id)

\* status.json holds 'running' and the pid; the exit listener is registered,
\* the timeout is scheduled and spawnSession returns the session id.
SpawnRunningDone(t) ==
  /\ call[t].pc = "running"
  /\ LET id == call[t].sid IN
     /\ disk' = WriteStatusTo(disk, id, SpawnStatus(id, t, call[t].startedAt, RUNNING, ChildPid(id)))
     /\ hist' = [hist EXCEPT ![id] = Recorded(hist[id], RUNNING)]
     /\ listener' = [listener EXCEPT ![id] = TRUE]
     /\ timer' = [timer EXCEPT ![id] = "armed"]
  /\ Returns(t)
  /\ UNCHANGED <<sessions, initialized, proc, killOp, exitOp, now, nextId, submitted,
                 restarts, behind, outbuf, appends,
                 cleanOp, listOp, userKills, faults, recovered, killLog, admitted>>

\* The write of status.json with 'running' fails: spawnSession rejects at its
\* await, before it registers the exit listener and schedules the timeout.
SpawnRunningFails(t) ==
  /\ call[t].pc = "running"
  /\ faults < MaxFaults
  /\ faults' = faults + 1
  /\ Throws(t, "error")
  /\ UNCHANGED <<sessions, initialized, disk, proc, listener, timer, killOp, exitOp,
                 now, nextId, submitted, restarts, behind, outbuf, appends,
                 cleanOp, listOp, userKills, recovered,
                 hist, killLog, admitted>>

-----------------------------------------------------------------------------
\* Callers.

Settled(t) == call[t].pc \in {"idle", "returned", "capacity", "error"}

\* A caller submits the next task with DelegationQueue.enqueue(task), which
\* calls spawnSession at once.
Enqueue(t) ==
  /\ t = submitted + 1
  /\ submitted' = t
  /\ call' = [call EXCEPT ![t] = StartCall("enqueue")]
  /\ behind' = IF queue # <<>> THEN behind \cup {t} ELSE behind
  /\ UNCHANGED <<sessions, initialized, disk, proc, listener, timer, killOp, exitOp,
                 queue, processing, loops, drain, now, nextId, restarts, outbuf, appends,
                 cleanOp, listOp, userKills,
                 faults, recovered, hist, killLog, enqResult, admitted, queuedSeq>>

\* A caller submits the next task with SessionManager.spawnSession(task), once
\* every earlier spawnSession call has returned or thrown.
SpawnDirect(t) ==
  /\ t = submitted + 1
  /\ \A u \in Tasks : Settled(u)
  /\ submitted' = t
  /\ call' = [call EXCEPT ![t] = StartCall("direct")]
  /\ UNCHANGED <<sessions, initialized, disk, proc, listener, timer, killOp, exitOp,
                 queue, processing, loops, drain, now, nextId, restarts, behind, outbuf, appends,
                 cleanOp, listOp, userKills,
                 faults, recovered, hist, killLog, enqResult, admitted, queuedSeq>>

\* processQueue: the 5 s backoff is over; the loop tests the queue again.
DrainWake ==
  /\ drain = "backoff"
  /\ DrainLoop(queue, call, loops)
  /\ UNCHANGED <<sessions, initialized, disk, proc, listener, timer, killOp, exitOp,
                 queue, now, nextId, submitted, restarts, behind, outbuf, appends,
                 cleanOp, listOp, userKills,
                 faults, recovered, hist, killLog, enqResult, admitted, queuedSeq>>

-----------------------------------------------------------------------------
\* SessionManager.handleExit.

\* handleExit acts on any session it finds in the Map.
ExitApplies(s) == s # NoSession

\* The session as the synchronous part of handleExit leaves it.
Exited(s, exitCode) ==
  [s EXCEPT !.status = FinalStatus(exitCode), !.completedAt = now, !.exitCode = exitCode]

\* The result document handleExit builds once status.json is written, from
\* the session object s it took from the Map: `output` is the buffer of the
\* object spawnSession created; an object built by loadExistingSessions has no
\* such property and JSON.stringify leaves it out.
ResultDoc(s, exitCode, buffer) ==
  IF s.child
  THEN [success |-> (exitCode = 0), exitCode |-> exitCode, output |-> buffer,
        completedAt |-> s.completedAt]
  ELSE [success |-> (exitCode = 0), exitCode |-> exitCode, completedAt |-> s.completedAt]

\* Mutant of the delivery: the exit of any worker reaches handleExit.
DeliveredAlways(id) == TRUE

\* The 'exit' event reaches handleExit only through the listener spawnSession
\* registered on the ChildProcess object of this controller.
Delivered(id) == listener[id]

\* A worker in state `state` ends with exit code `code` (null when a signal
\* ended it): where the event is delivered, handleExit runs up to its first
\* await; otherwise the event is lost.
WorkerEnds(id, code, state) ==
  /\ proc[id].state = state
  /\ code \in ExitCodes \cup (IF proc[id].signaled THEN {Null} ELSE {})
  /\ proc' = [proc EXCEPT ![id].state = "exited", ![id].code = code]
  /\ IF Delivered(id) /\ ExitApplies(sessions[id])
     THEN LET s == Exited(sessions[id], code) IN
          /\ sessions' = [sessions EXCEPT ![id] = s]
          /\ exitOp' = [exitOp EXCEPT ![id] =
                          [pc |-> "status",
                           rec |-> ExitStatus(id, s, FinalStatus(code), code),
                           session |-> s, result |-> NoFile]]
     ELSE UNCHANGED <<sessions, exitOp>>
  /\ UNCHANGED <<initialized, disk, listener, timer, call, killOp,
                 queue, processing, loops, drain, now, nextId, submitted,
                 restarts, behind, outbuf, appends,
                 cleanOp, listOp, userKills,
                 faults, recovered, hist, killLog, enqResult, admitted, queuedSeq>>

\* A worker launched by this controller ends and its 'exit' event is emitted.
Exit(id, code) == WorkerEnds(id, code, "alive")

\* A detached worker left over from before the restart ends: the ChildProcess
\* object it belonged to is gone with the old controller.
OrphanExit(id, code) == WorkerEnds(id, code, "orphan")

\* handleExit: status.json holds the final status; result.json is being written.
ExitStatusDone(id) ==
  /\ exitOp[id] # NoOp
  /\ exitOp[id].pc = "status"
  /\ disk' = WriteStatusTo(disk, id, exitOp[id].rec)
  /\ hist' = [hist EXCEPT ![id] = Recorded(hist[id], exitOp[id].rec.status)]
  /\ exitOp' = [exitOp EXCEPT ![id].pc = "result",
                               ![id].result = ResultDoc(exitOp[id].session,
                                                        exitOp[id].rec.exitCode, outbuf[id])]
  /\ UNCHANGED <<sessions, initialized, proc, listener, timer, call, killOp,
                 queue, processing, loops, drain, now, nextId, submitted,
                 restarts, behind, outbuf, appends,
                 cleanOp, listOp, userKills,
                 faults, recovered, killLog, enqResult, admitted, queuedSeq>>

\* handleExit: the write of status.json fails; handleExit rejects and
\* result.json is not written.
ExitStatusFails(id) ==
  /\ exitOp[id] # NoOp
  /\ exitOp[id].pc = "status"
  /\ faults < MaxFaults
  /\ faults' = faults + 1
  /\ exitOp' = [exitOp EXCEPT ![id] = NoOp]
  /\ UNCHANGED <<sessions, initialized, disk, proc, listener, timer, call, killOp,
                 queue, processing, loops, drain, now, nextId, submitted,
                 restarts, behind, outbuf, appends,
                 cleanOp, listOp,
                 userKills, recovered, hist, killLog, enqResult, admitted, queuedSeq>>

\* handleExit: the write of result.json fails; handleExit rejects.
ExitResultFails(id) ==
  /\ exitOp[id] # NoOp
  /\ exitOp[id].pc = "result"
  /\ faults < MaxFaults
  /\ faults' = faults + 1
  /\ exitOp' = [exitOp EXCEPT ![id] = NoOp]
  /\ UNCHANGED <<sessions, initialized, disk, proc, listener, timer, call, killOp,
                 queue, processing, loops, drain, now, nextId, submitted,
                 restarts, behind, outbuf, appends,
                 cleanOp, listOp,
                 userKills, recovered, hist, killLog, enqResult, admitted, queuedSeq>>

\* handleExit: result.json is written.
ExitResultDone(id) ==
  /\ exitOp[id] # NoOp
  /\ exitOp[id].pc = "result"
  /\ disk' = [disk EXCEPT ![id].result = exitOp[id].result]
  /\ exitOp' = [exitOp EXCEPT ![id] = NoOp]
  /\ UNCHANGED <<sessions, initialized, proc, listener, timer, call, killOp,
                 queue, processing, loops, drain, now, nextId, submitted,
                 restarts, behind, outbuf, appends,
                 cleanOp, listOp, userKills,
                 faults, recovered, hist, killLog, enqResult, admitted, queuedSeq>>

-----------------------------------------------------------------------------
\* The output handlers of spawnSession.

\* The streams of the worker the handlers listen to.
Streams == {"stdout", "stderr"}

\* What a handler adds to the buffer and to output.txt for the k-th chunk of
\* the worker: the data, behind '[stderr] ' when it came from stderr.
Entry(stream, k) == [prefixed |-> (stream = "stderr"), data |-> k]

\* A 'data' event of the worker's stdout or stderr is delivered (the pipes can
\* still hold data when the 'exit' event has been emitted): the handler adds
\* the chunk to the buffer of the session object it closed over and calls
\* appendOutput without awaiting it.
Data(id, stream) ==
  /\ listener[id]
  /\ proc[id].state \in {"alive", "exited"}
  /\ Len(outbuf[id]) < MaxChunks
  /\ LET e == Entry(stream, Len(outbuf[id]) + 1) IN
     /\ outbuf' = [outbuf EXCEPT ![id] = Append(outbuf[id], e)]
     /\ appends' = [appends EXCEPT ![id] = appends[id] \cup {e}]
  /\ UNCHANGED <<sessions, initialized, disk, proc, listener, timer, call, killOp, exitOp,
                 queue, processing, loops, drain, now, nextId, submitted, restarts, behind,
                 cleanOp, listOp, userKills, faults, recovered, hist, killLog,
                 enqResult, admitted, queuedSeq>>

\* appendOutput: one of the fs.appendFile calls in flight completes; the calls
\* are independent of each other, so they complete in any order.  Without the
\* session directory the call rejects.
AppendDone(id) ==
  /\ \E e \in appends[id] :
       /\ appends' = [appends EXCEPT ![id] = appends[id] \ {e}]
       /\ IF disk[id].dir
          THEN disk' = [disk EXCEPT ![id].output = OutFile(Append(getOutput(id), e))]
          ELSE disk' = disk
  /\ UNCHANGED <<sessions, initialized, proc, listener, timer, call, killOp, exitOp,
                 queue, processing, loops, drain, now, nextId, submitted, restarts, behind,
                 outbuf, cleanOp, listOp, userKills, faults, recovered, hist, killLog,
                 enqResult, admitted, queuedSeq>>

-----------------------------------------------------------------------------
\* SessionManager.killSession.

\* The session as the synchronous part of killSession leaves it.
Killed(s, reason) == [s EXCEPT !.status = KilledStatus(reason), !.completedAt = now]

\* Mutant of the signal: none is sent.
NotSignaled(p) == p

\* The worker's process group after process.kill(-pid, 'SIGTERM') was called
\* (the call is made, and what it throws is caught).
Signaled(p) == [p EXCEPT !.signaled = TRUE]

\* killSession(id, reason) up to its await: with a running session that has a
\* process handle it signals the process group, sets the status and starts
\* writing status.json; otherwise it returns false.
killSession(id, reason) ==
  IF CanKill(sessions[id])
  THEN /\ proc' = [proc EXCEPT ![id] = Signaled(proc[id])]
       /\ sessions' = [sessions EXCEPT ![id] = Killed(sessions[id], reason)]
       /\ killOp' = [killOp EXCEPT ![id] = KillStatus(id, Killed(sessions[id], reason), reason)]
       /\ UNCHANGED killLog
  ELSE /\ killLog' = [killLog EXCEPT ![id] = Append(killLog[id], FALSE)]
       /\ UNCHANGED <<proc, sessions, killOp>>

\* A caller calls killSession(id) (reason 'user_request').
UserKill(id) ==
  /\ userKills < MaxUserKills
  /\ userKills' = userKills + 1
  /\ killSession(id, "user_request")
  /\ UNCHANGED <<initialized, disk, listener, timer, call, exitOp,
                 queue, processing, loops, drain, now, nextId, submitted,
                 restarts, behind, outbuf, appends,
                 cleanOp, listOp,
                 faults, recovered, hist, enqResult, admitted, queuedSeq>>

\* killSession: status.json is written; the call returns true.
KillDone(id) ==
  /\ killOp[id] # NoOp
  /\ disk' = WriteStatusTo(disk, id, killOp[id])
  /\ hist' = [hist EXCEPT ![id] = Recorded(hist[id], killOp[id].status)]
  /\ killLog' = [killLog EXCEPT ![id] = Append(killLog[id], TRUE)]
  /\ killOp' = [killOp EXCEPT ![id] = NoOp]
  /\ UNCHANGED <<sessions, initialized, proc, listener, timer, call, exitOp,
                 queue, processing, loops, drain, now, nextId, submitted,
                 restarts, behind, outbuf, appends,
                 cleanOp, listOp, userKills,
                 faults, recovered, enqResult, admitted, queuedSeq>>

\* killSession: the write of status.json fails; the call rejects, returning
\* neither true nor false.
KillFails(id) ==
  /\ killOp[id] # NoOp
  /\ faults < MaxFaults
  /\ faults' = faults + 1
  /\ killOp' = [killOp EXCEPT ![id] = NoOp]
  /\ UNCHANGED <<sessions, initialized, disk, proc, listener, timer, call, exitOp,
                 queue, processing, loops, drain, now, nextId, submitted,
                 restarts, behind, outbuf, appends,
                 cleanOp, listOp,
                 userKills, recovered, hist, killLog, enqResult, admitted, queuedSeq>>

\* The timeout callback of spawnSession: the test it makes before it calls
\* killSession(id, 'timeout').
TimeoutApplies(s) == s # NoSession /\ s.status = RUNNING

\* sessionTimeoutMs after spawnSession scheduled it, the timeout fires.
TimerFire(id) ==
  /\ timer[id] = "armed"
  /\ timer' = [timer EXCEPT ![id] = "fired"]
  /\ IF TimeoutApplies(sessions[id])
     THEN killSession(id, "timeout")
     ELSE UNCHANGED <<proc, sessions, killOp, killLog>>
  /\ UNCHANGED <<initialized, disk, listener, call, exitOp,
                 queue, processing, loops, drain, now, nextId, submitted,
                 restarts, behind, outbuf, appends,
                 cleanOp, listOp, userKills,
                 faults, recovered, hist, enqResult, admitted, queuedSeq>>

-----------------------------------------------------------------------------
\* SessionManager.cleanup, one action per await.

\* Mutant of the status test: every status is cleaned up.
CleansAnyStatus(st) == TRUE

\* cleanup: the statuses it removes.
CleansStatus(st) == st = COMPLETED \/ st = FAILED

\* cleanup: the age test, on the completedAt of the record and the cutoff.
OlderThan(completedAt, cutoff) == completedAt < cutoff

\* cleanup: whether the record checkStatus answered with is removed.
Cleans(st, cutoff) ==
  st # NullResult /\ CleansStatus(st.status) /\ OlderThan(st.completedAt, cutoff)

\* cleanup's loop going on to its next directory entry; it returns after the last.
CleanNext(op) ==
  IF op.scan = {}
  THEN cleanOp' = [op EXCEPT !.pc = "idle", !.cur = 0]
  ELSE \E e \in op.scan :
         cleanOp' = [op EXCEPT !.pc = "check", !.cur = e, !.scan = op.scan \ {e}]

\* A caller calls cleanup(): the cutoff is computed and readdir is requested.
CleanStart ==
  /\ cleanOp.pc = "idle"
  /\ cleanOp.runs < MaxCleanups
  /\ cleanOp' = [cleanOp EXCEPT !.pc = "readdir", !.cutoff = now - cleanupAfterMs,
                                !.runs = cleanOp.runs + 1]
  /\ UNCHANGED <<sessions, initialized, disk, proc, listener, timer, call, killOp, exitOp,
                 queue, processing, loops, drain, now, nextId, submitted,
                 restarts, behind, outbuf, appends,
                 userKills,
                 faults, recovered, hist, killLog, enqResult, admitted, queuedSeq, listOp>>

\* cleanup: readdir answers with the session directories (none when the
\* sessions directory is not there and readdir fails).
CleanReaddirDone ==
  /\ cleanOp.pc = "readdir"
  /\ CleanNext([cleanOp EXCEPT !.scan = {id \in Ids : disk[id].dir}])
  /\ UNCHANGED <<sessions, initialized, disk, proc, listener, timer, call, killOp, exitOp,
                 queue, processing, loops, drain, now, nextId, submitted,
                 restarts, behind, outbuf, appends,
                 userKills,
                 faults, recovered, hist, killLog, enqResult, admitted, queuedSeq, listOp>>

\* cleanup: checkStatus answered for the entry; a completed or failed record
\* older than the cutoff has its directory removed, any other is passed over.
CleanCheckDone ==
  /\ cleanOp.pc = "check"
  /\ IF Cleans(checkStatus(cleanOp.cur), cleanOp.cutoff)
     THEN cleanOp' = [cleanOp EXCEPT !.pc = "rm"]
     ELSE CleanNext(cleanOp)
  /\ UNCHANGED <<sessions, initialized, disk, proc, listener, timer, call, killOp, exitOp,
                 queue, processing, loops, drain, now, nextId, submitted,
                 restarts, behind, outbuf, appends,
                 userKills,
                 faults, recovered, hist, killLog, enqResult, admitted, queuedSeq, listOp>>

\* cleanup: fs.rm removed the session directory; the session is deleted from
\* the Map.  A write to the directory still in flight fails, and the handler
\* that awaits it rejects.
CleanRmDone ==
  /\ cleanOp.pc = "rm"
  /\ disk' = [disk EXCEPT ![cleanOp.cur] = NoDir]
  /\ sessions' = [sessions EXCEPT ![cleanOp.cur] = NoSession]
  /\ exitOp' = [exitOp EXCEPT ![cleanOp.cur] = NoOp]
  /\ killOp' = [killOp EXCEPT ![cleanOp.cur] = NoOp]
  /\ CleanNext(cleanOp)
  /\ UNCHANGED <<initialized, proc, listener, timer, call,
                 queue, processing, loops, drain, now, nextId, submitted,
                 restarts, behind, outbuf, appends,
                 userKills,
                 faults, recovered, hist, killLog, enqResult, admitted, queuedSeq, listOp>>

\* cleanup: fs.rm rejects; the catch around the whole loop ends the call, which
\* returns without looking at the entries that are left.
CleanRmFails ==
  /\ cleanOp.pc = "rm"
  /\ faults < MaxFaults
  /\ faults' = faults + 1
  /\ cleanOp' = [cleanOp EXCEPT !.pc = "idle", !.cur = 0, !.scan = {}]
  /\ UNCHANGED <<sessions, initialized, disk, proc, listener, timer, call, killOp, exitOp,
                 queue, processing, loops, drain, now, nextId, submitted,
                 restarts, behind, outbuf, appends,
                 userKills,
                 recovered, hist, killLog, enqResult, admitted, queuedSeq, listOp>>

\* Every step of a cleanup() call.
CleanStep == CleanStart \/ CleanReaddirDone \/ CleanCheckDone \/ CleanRmDone

-----------------------------------------------------------------------------
\* SessionManager.listSessions, one action per await.

\* The filters callers list with.
Filters ==
  {[status |-> NoFilter, projectId |-> NoFilter],
   [status |-> RUNNING, projectId |-> NoFilter],
   [status |-> NoFilter, projectId |-> "p"]}

\* listSessions: the two tests a record passes to be listed.
PassesFilter(rec, f) ==
  /\ f.status = NoFilter \/ rec.status = f.status
  /\ f.projectId = NoFilter \/ rec.projectId = f.projectId

\* listSessions: the object pushed for a session of the Map.
Listed(id, s) ==
  [id |-> id, status |-> s.status, task |-> s.task, startedAt |-> s.startedAt,
   completedAt |-> s.completedAt]

\* listSessions: the pass over the Map (the ids of the model in ascending order).
RECURSIVE MemoryPass(_, _)
MemoryPass(id, f) ==
  IF id > MaxTasks THEN <<>>
  ELSE (IF sessions[id] # NoSession /\ PassesFilter(sessions[id], f)
        THEN <<Listed(id, sessions[id])>> ELSE <<>>) \o MemoryPass(id + 1, f)

\* Array.prototype.sort with (a, b) => new Date(b.startedAt) - new Date(a.startedAt):
\* a stable sort by startedAt, descending.
RECURSIVE InsertDesc(_, _)
InsertDesc(x, sorted) ==
  IF sorted = <<>> THEN <<x>>
  ELSE IF Head(sorted).startedAt >= x.startedAt
       THEN <<Head(sorted)>> \o InsertDesc(x, Tail(sorted))
       ELSE <<x>> \o sorted

RECURSIVE SortDesc(_)
SortDesc(seq) ==
  IF seq = <<>> THEN <<>>
  ELSE InsertDesc(seq[Len(seq)], SortDesc(SubSeq(seq, 1, Len(seq) - 1)))

\* History: the sessions that are known, in the Map or by a status.json, and
\* that match a filter by their status and by the project of their task.
Known(id) == sessions[id] # NoSession \/ disk[id].status # NoFile
RecordOf(id) == IF sessions[id] # NoSession THEN sessions[id] ELSE disk[id].status
Matches(id, f) ==
  /\ Known(id)
  /\ f.status = NoFilter \/ RecordOf(id).status = f.status
  /\ f.projectId = NoFilter \/ ProjectOf(RecordOf(id).task) = f.projectId

\* listSessions' loop over the directory entries: an entry found in the Map is
\* skipped, checkStatus is awaited for the next other one, and after the last
\* entry the array is sorted and returned.
ListLoop(op) ==
  LET rest == {e \in op.scan : sessions[e] = NoSession}
      must == {id \in op.must : Matches(id, op.filter)} IN
  IF rest = {}
  THEN listOp' = [op EXCEPT !.pc = "idle", !.scan = {}, !.cur = 0, !.acc = <<>>,
                            !.out = SortDesc(op.acc), !.must = must]
  ELSE \E e \in rest :
         listOp' = [op EXCEPT !.pc = "check", !.cur = e, !.scan = rest \ {e},
                              !.must = must]

\* A caller calls listSessions(filter) on an initialized manager: init()
\* returns at once, the sessions of the Map that pass the filter are pushed and
\* readdir is requested.
ListStart(f) ==
  /\ listOp.pc = "idle"
  /\ listOp.calls < MaxLists
  /\ initialized
  /\ listOp' = [listOp EXCEPT !.pc = "readdir", !.filter = f, !.acc = MemoryPass(1, f),
                              !.out = <<>>, !.calls = listOp.calls + 1,
                              !.must = {id \in Ids : Matches(id, f)}]
  /\ UNCHANGED <<sessions, initialized, disk, proc, listener, timer, call, killOp, exitOp,
                 queue, processing, loops, drain, now, nextId, submitted,
                 restarts, behind, outbuf, appends,
                 userKills,
                 faults, recovered, hist, killLog, enqResult, admitted, queuedSeq, cleanOp>>

\* listSessions: readdir answers with the session directories.
ListReaddirDone ==
  /\ listOp.pc = "readdir"
  /\ ListLoop([listOp EXCEPT !.scan = {id \in Ids : disk[id].dir}])
  /\ UNCHANGED <<sessions, initialized, disk, proc, listener, timer, call, killOp, exitOp,
                 queue, processing, loops, drain, now, nextId, submitted,
                 restarts, behind, outbuf, appends,
                 userKills,
                 faults, recovered, hist, killLog, enqResult, admitted, queuedSeq, cleanOp>>

\* listSessions: checkStatus, which found no session in the Map, has read the
\* entry's status.json; the document is pushed if there is one and it passes
\* the filter.
ListCheckDone ==
  /\ listOp.pc = "check"
  /\ LET st == disk[listOp.cur].status IN
     ListLoop(IF st # NoFile /\ PassesFilter(st, listOp.filter)
              THEN [listOp EXCEPT !.acc = Append(listOp.acc, st)]
              ELSE listOp)
  /\ UNCHANGED <<sessions, initialized, disk, proc, listener, timer, call, killOp, exitOp,
                 queue, processing, loops, drain, now, nextId, submitted,
                 restarts, behind, outbuf, appends,
                 userKills,
                 faults, recovered, hist, killLog, enqResult, admitted, queuedSeq, cleanOp>>

\* Every step of a listSessions() call.
ListStep == (\E f \in Filters : ListStart(f)) \/ ListReaddirDone \/ ListCheckDone

-----------------------------------------------------------------------------
\* The environment.

\* The wall clock advances.
Tick ==
  /\ now < MaxTime
  /\ now' = now + 1
  /\ UNCHANGED <<sessions, initialized, disk, proc, listener, timer, call, killOp, exitOp,
                 queue, processing, loops, drain, nextId, submitted,
                 restarts, behind, outbuf, appends,
                 cleanOp, listOp, userKills,
                 faults, recovered, hist, killLog, enqResult, admitted, queuedSeq>>

\* The controlling process stops and a new one is constructed: memory, timers,
\* pending calls and the queue are gone, the session directories stay, and the
\* detached workers run on without a handle.
Restart ==
  /\ restarts < MaxRestarts
  /\ \E id \in Ids : disk[id].dir
  /\ restarts' = restarts + 1
  /\ sessions' = [id \in Ids |-> NoSession]
  /\ initialized' = FALSE
  /\ proc' = [id \in Ids |-> IF proc[id].state = "alive"
                              THEN [proc[id] EXCEPT !.state = "orphan"] ELSE proc[id]]
  /\ listener' = [id \in Ids |-> FALSE]
  /\ timer' = [id \in Ids |-> "none"]
  /\ call' = [t \in Tasks |-> IdleCall]
  /\ killOp' = [id \in Ids |-> NoOp]
  /\ exitOp' = [id \in Ids |-> NoOp]
  /\ queue' = <<>>
  /\ processing' = FALSE
  /\ loops' = 0
  /\ outbuf' = [id \in Ids |-> <<>>]
  /\ appends' = [id \in Ids |-> {}]
  /\ drain' = "idle"
  /\ recovered' = {id \in Ids : disk[id].dir}
  /\ cleanOp' = IdleClean
  /\ listOp' = IdleList
  /\ UNCHANGED <<disk, now, nextId, submitted, userKills, faults, hist, killLog,
                 enqResult, admitted, queuedSeq, behind>>

-----------------------------------------------------------------------------
\* Every step of a spawnSession call.
SpawnStep(t) ==
  \/ SpawnAfterInit(t)
  \/ InitMkdirDone(t)
  \/ InitReaddirDone(t)
  \/ InitReadFileDone(t)
  \/ SpawnMkdirDone(t)
  \/ SpawnMkdirFails(t)
  \/ SpawnTaskDone(t)
  \/ SpawnStatusDone(t)
  \/ SpawnRunningDone(t)

\* Every step of the workers, the exit handler, killSession and the timeouts.
SessionStep(id) ==
  \/ \E code \in ExitCodes \cup {Null} : Exit(id, code)
  \/ ExitStatusDone(id)
  \/ ExitResultDone(id)
  \/ UserKill(id)
  \/ KillDone(id)
  \/ TimerFire(id)

\* The specifications below leave the clock where it is unless they say
\* otherwise: no branch of the code modelled here reads a timestamp.

\* Concurrent callers submit tasks through the queue; workers exit, callers
\* kill sessions and timeouts fire.
Next ==
  \/ \E t \in 1..MaxRaceTasks : Enqueue(t)
  \/ \E t \in Tasks : SpawnStep(t)
  \/ \E id \in Ids : SessionStep(id)
  \/ DrainWake

Spec == Init /\ [][Next]_vars

\* One session's life with the clock advancing between its events.
ClockNext ==
  \/ \E t \in 1..MaxClockTasks : Enqueue(t)
  \/ \E t \in Tasks : InitMkdirDone(t) \/ InitReaddirDone(t)
                        \/ SpawnMkdirDone(t) \/ SpawnMkdirFails(t) \/ SpawnTaskDone(t)
                        \/ SpawnStatusDone(t) \/ SpawnRunningDone(t)
  \/ \E id \in Ids : SessionStep(id)
  \/ Tick

ClockSpec == Init /\ [][ClockNext]_vars

\* spawnSession calls issued one at a time on a fresh store, interleaved with
\* worker exits, killSession calls and timeouts.
SeqNext ==
  \/ \E t \in 1..MaxRaceTasks : SpawnDirect(t)
  \/ \E t \in Tasks : SpawnAfterInit(t) \/ InitMkdirDone(t) \/ InitReaddirDone(t)
                        \/ SpawnMkdirDone(t) \/ SpawnMkdirFails(t) \/ SpawnTaskDone(t)
                        \/ SpawnStatusDone(t) \/ SpawnRunningDone(t)
  \/ \E id \in Ids : SessionStep(id)

SeqSpec == Init /\ [][SeqNext]_vars

\* spawnSession calls issued one at a time to workers that end, with the
\* session ids of all calls but the first drawn from the whole id space.
IdNext ==
  \/ \E t \in 1..MaxRaceTasks : SpawnDirect(t)
  \/ \E t \in Tasks : SpawnAfterInitAnyId(t) \/ InitMkdirDone(t) \/ InitReaddirDone(t)
                        \/ SpawnMkdirDone(t) \/ SpawnTaskDone(t)
                        \/ SpawnStatusDone(t) \/ SpawnRunningDone(t)
  \/ \E id \in Ids : (\E code \in ExitCodes : Exit(id, code))
                       \/ ExitStatusDone(id) \/ ExitResultDone(id)

IdSpec == Init /\ [][IdNext]_vars

\* The queue under saturation: tasks submitted through enqueue to workers that
\* end with exit code 0.
QueueNext ==
  \/ \E t \in Tasks : Enqueue(t)
  \/ \E t \in Tasks : SpawnAfterInit(t) \/ InitMkdirDone(t) \/ InitReaddirDone(t)
                        \/ InitReadFileDone(t) \/ SpawnMkdirDone(t) \/ SpawnTaskDone(t)
                        \/ SpawnStatusDone(t) \/ SpawnRunningDone(t)
  \/ \E id \in Ids : Exit(id, 0) \/ ExitStatusDone(id) \/ ExitResultDone(id)
  \/ DrainWake

QueueSpec == Init /\ [][QueueNext]_vars

\* The queue under saturation, with file-system operations of spawnSession
\* that fail.
DrainFaultNext ==
  \/ QueueNext
  \/ \E t \in Tasks : SpawnMkdirFails(t) \/ SpawnTaskFails(t) \/ SpawnStatusFails(t)
                        \/ SpawnRunningFails(t)

DrainFaultSpec == Init /\ [][DrainFaultNext]_vars

\* The controller restarts over the session directories it left behind.
RecoveryNext ==
  \/ \E t \in 1..MaxRaceTasks : Enqueue(t)
  \/ \E t \in Tasks : SpawnStep(t)
  \/ \E id \in Ids : SessionStep(id)
  \/ DrainWake
  \/ Restart

RecoverySpec == Init /\ [][RecoveryNext]_vars

\* Callers list the sessions while sessions are spawned one at a time, end,
\* are killed, the clock advances and the controller restarts.
ListNext ==
  \/ \E t \in 1..MaxRaceTasks : SpawnDirect(t)
  \/ \E t \in Tasks : SpawnAfterInit(t) \/ InitMkdirDone(t) \/ InitReaddirDone(t)
                        \/ InitReadFileDone(t) \/ SpawnMkdirDone(t) \/ SpawnTaskDone(t)
                        \/ SpawnStatusDone(t) \/ SpawnRunningDone(t)
  \/ \E id \in Ids : Exit(id, 0) \/ ExitStatusDone(id) \/ ExitResultDone(id)
                       \/ UserKill(id) \/ KillDone(id)
  \/ Tick
  \/ Restart
  \/ ListStep

ListSpec == Init /\ [][ListNext]_vars

\* The failures of the environment: a worker that cannot be started and
\* writes that fail, with spawnSession calls issued one at a time and restarts
\* of the controller.
FaultStep ==
  \/ \E t \in Tasks : SpawnMkdirFails(t) \/ SpawnTaskFails(t) \/ SpawnStatusFails(t)
                        \/ SpawnLaunchFails(t) \/ SpawnRunningFails(t)
  \/ \E id \in Ids : ExitStatusFails(id) \/ ExitResultFails(id) \/ KillFails(id)

FaultNext ==
  \/ \E t \in 1..MaxRaceTasks : SpawnDirect(t)
  \/ \E t \in Tasks : SpawnAfterInit(t) \/ InitMkdirDone(t) \/ InitReaddirDone(t)
                        \/ InitReadFileDone(t) \/ SpawnMkdirDone(t) \/ SpawnTaskDone(t)
                        \/ SpawnStatusDone(t) \/ SpawnRunningDone(t)
  \/ \E id \in Ids : SessionStep(id)
  \/ FaultStep
  \/ Restart

FaultSpec == Init /\ [][FaultNext]_vars

\* The output of a worker: one spawnSession call, a worker that writes to
\* stdout and stderr and ends, callers that kill the session.
OutputNext ==
  \/ \E t \in 1..MaxClockTasks : SpawnDirect(t)
  \/ \E t \in Tasks : InitMkdirDone(t) \/ InitReaddirDone(t)
                        \/ SpawnMkdirDone(t) \/ SpawnTaskDone(t)
                        \/ SpawnStatusDone(t) \/ SpawnRunningDone(t)
  \/ \E id \in Ids : (\E code \in ExitCodes \cup {Null} : Exit(id, code))
                       \/ ExitStatusDone(id) \/ ExitResultDone(id)
                       \/ UserKill(id) \/ KillDone(id)
  \/ \E id \in Ids : (\E stream \in Streams : Data(id, stream)) \/ AppendDone(id)

OutputSpec == Init /\ [][OutputNext]_vars

\* spawnSession calls issued one at a time, with restarts of the controller.
SeqRecoveryNext ==
  \/ \E t \in 1..MaxRaceTasks : SpawnDirect(t)
  \/ \E t \in Tasks : SpawnAfterInit(t) \/ InitMkdirDone(t) \/ InitReaddirDone(t)
                        \/ InitReadFileDone(t) \/ SpawnMkdirDone(t) \/ SpawnTaskDone(t)
                        \/ SpawnStatusDone(t) \/ SpawnRunningDone(t)
  \/ \E id \in Ids : SessionStep(id)
  \/ \E id \in Ids : \E code \in ExitCodes \cup {Null} : OrphanExit(id, code)
  \/ Restart

SeqRecoverySpec == Init /\ [][SeqRecoveryNext]_vars

\* Sessions end, the clock advances, the controller restarts and a caller
\* runs cleanup().
CleanNextStep ==
  \/ \E t \in 1..MaxRaceTasks : SpawnDirect(t)
  \/ \E t \in Tasks : InitMkdirDone(t) \/ InitReaddirDone(t) \/ InitReadFileDone(t) \/ SpawnAfterInit(t)
                        \/ SpawnMkdirDone(t) \/ SpawnTaskDone(t)
                        \/ SpawnStatusDone(t) \/ SpawnRunningDone(t)
  \/ \E id \in Ids : Exit(id, 0) \/ ExitStatusDone(id) \/ ExitResultDone(id)
                       \/ UserKill(id) \/ KillDone(id)
  \/ Tick
  \/ CleanStep
  \/ Restart

CleanSpec == Init /\ [][CleanNextStep]_vars

\* Sessions end, the clock advances and a caller runs cleanup(), one of whose
\* fs.rm calls may fail.
CleanFaultNext ==
  \/ \E t \in 1..MaxRaceTasks : SpawnDirect(t)
  \/ \E t \in Tasks : InitMkdirDone(t) \/ InitReaddirDone(t) \/ SpawnAfterInit(t)
                        \/ SpawnMkdirDone(t) \/ SpawnTaskDone(t)
                        \/ SpawnStatusDone(t) \/ SpawnRunningDone(t)
  \/ \E id \in Ids : Exit(id, 0) \/ ExitStatusDone(id) \/ ExitResultDone(id)
  \/ Tick
  \/ CleanStep
  \/ CleanRmFails

CleanFaultSpec == Init /\ [][CleanFaultNext]_vars

\* The queue under fair scheduling of the controller's own steps: every
\* pending file-system operation completes, every scheduled timer fires.  No
\* fairness is assumed of callers or of workers.
FairNext ==
  \/ \E t \in 1..MaxRaceTasks : Enqueue(t)
  \/ \E t \in Tasks : SpawnAfterInit(t) \/ InitMkdirDone(t) \/ InitReaddirDone(t)
                        \/ InitReadFileDone(t) \/ SpawnMkdirDone(t) \/ SpawnTaskDone(t)
                        \/ SpawnStatusDone(t) \/ SpawnRunningDone(t)
  \/ \E id \in Ids : (\E code \in ExitCodes \cup {Null} : Exit(id, code))
                       \/ ExitStatusDone(id) \/ ExitResultDone(id)
                       \/ KillDone(id) \/ TimerFire(id)
  \/ DrainWake

Fairness ==
  /\ \A t \in Tasks :
       /\ WF_vars(SpawnAfterInit(t)) /\ WF_vars(InitMkdirDone(t))
       /\ WF_vars(InitReaddirDone(t)) /\ WF_vars(InitReadFileDone(t))
       /\ WF_vars(SpawnMkdirDone(t)) /\ WF_vars(SpawnTaskDone(t))
       /\ WF_vars(SpawnStatusDone(t)) /\ WF_vars(SpawnRunningDone(t))
  /\ \A id \in Ids :
       /\ WF_vars(ExitStatusDone(id)) /\ WF_vars(ExitResultDone(id))
       /\ WF_vars(KillDone(id)) /\ WF_vars(TimerFire(id))
  /\ WF_vars(DrainWake)

FairSpec == Init /\ [][FairNext]_vars /\ Fairness

\* The same under restarts of the controller, with the detached workers of
\* the stopped controller ending on their own.
FairRecoveryNext ==
  \/ FairNext
  \/ \E id \in Ids : \E code \in ExitCodes : OrphanExit(id, code)
  \/ Restart

FairRecoverySpec == Init /\ [][FairRecoveryNext]_vars /\ Fairness

-----------------------------------------------------------------------------
\* Helpers of the properties.

Range(seq) == {seq[i] : i \in DOMAIN seq}
Pos(seq, x) == CHOOSE i \in DOMAIN seq : seq[i] = x /\ \A j \in DOMAIN seq : seq[j] = x => i <= j
IsPrefix(p, q) == Len(p) <= Len(q) /\ \A i \in DOMAIN p : p[i] = q[i]
Present(id) == sessions[id] # NoSession
Running(id) == Present(id) /\ sessions[id].status = RUNNING
InitPcs == {"init", "init_mkdir", "init_readdir", "init_scan"}
Forced == {KILLED, TIMEOUT}
Natural == {COMPLETED, FAILED}

-----------------------------------------------------------------------------
\* C1: under any interleaving of overlapping spawnSession calls, the number of
\* sessions whose in-memory status is 'running' never exceeds
\* maxConcurrentSessions.
C1_RunningNeverExceedsCap == RunningCount(sessions) <= maxConcurrentSessions

\* C2: when spawnSession calls are issued one at a time, interleaved with
\* worker exits, killSession calls and timeouts, the number of running sessions
\* never exceeds maxConcurrentSessions, and a call whose capacity check finds
\* the running count at or above the cap fails with the capacity error and
\* allocates no session.
C2_SequentialCap ==
  /\ [](RunningCount(sessions) <= maxConcurrentSessions)
  /\ [][\A t \in Tasks :
          (call[t].pc \in InitPcs /\ call'[t].pc \notin InitPcs
             /\ RunningCount(sessions') >= maxConcurrentSessions)
          => (call'[t].pc = "capacity" /\ nextId' = nextId /\ disk' = disk)]_vars

C2_Witness ==
  \E t \in Tasks : /\ call[t].pc = "capacity"
                   /\ call[t].by = "direct"
                   /\ RunningCount(sessions) = maxConcurrentSessions

\* C3: a session's terminal status is absorbing: once 'killed' or 'timeout'
\* it is never afterwards 'completed' or 'failed', and the other way round, in
\* the in-memory record and in status.json.
C3_TerminalAbsorbing ==
  [][\A id \in Ids :
       /\ (Present(id) /\ sessions'[id] # NoSession)
            => /\ sessions[id].status \in Forced => sessions'[id].status \notin Natural
               /\ sessions[id].status \in Natural => sessions'[id].status \notin Forced
       /\ (disk[id].status # NoFile /\ disk'[id].status # NoFile)
            => /\ disk[id].status.status \in Forced => disk'[id].status.status \notin Natural
               /\ disk[id].status.status \in Natural => disk'[id].status.status \notin Forced
    ]_vars

\* C4: the distinct status values recorded in a session's status.json are, in
\* order, pending, spawning, running and one terminal status, with none
\* skipped, none revisited and nothing after the terminal one.
C4_StatusPath ==
  \A id \in Ids : \E T \in Terminal : IsPrefix(hist[id], <<PENDING, SPAWNING, RUNNING, T>>)

\* C5: completedAt, exitCode and killReason are each written at most once and
\* keep their value in every later state, in memory and in status.json.
C5_TerminalFieldsFrozen ==
  [][\A id \in Ids :
       /\ (Present(id) /\ sessions'[id] # NoSession)
            => /\ sessions[id].completedAt # Null
                    => sessions'[id].completedAt = sessions[id].completedAt
               /\ sessions[id].exitCode # AbsentN
                    => sessions'[id].exitCode = sessions[id].exitCode
               /\ sessions[id].killReason # Absent
                    => sessions'[id].killReason = sessions[id].killReason
       /\ (disk[id].status # NoFile /\ disk'[id].status # NoFile)
            => /\ disk[id].status.completedAt # Null
                    => disk'[id].status.completedAt = disk[id].status.completedAt
               /\ disk[id].status.exitCode # AbsentN
                    => disk'[id].status.exitCode = disk[id].status.exitCode
               /\ disk[id].status.killReason # Absent
                    => disk'[id].status.killReason = disk[id].status.killReason
    ]_vars

\* C6: over any sequence of killSession calls on one session at most one
\* returns true, and a call that returns false leaves the session's record
\* (status, completedAt, exitCode, killReason; in memory and on disk) as it was.
C6_KillIdempotent ==
  /\ [](\A id \in Ids : \A i, j \in DOMAIN killLog[id] :
          (killLog[id][i] /\ killLog[id][j]) => i = j)
  /\ [][\A id \in Ids :
          killLog'[id] = Append(killLog[id], FALSE)
          => (sessions'[id] = sessions[id] /\ disk'[id] = disk[id]
              /\ killOp'[id] = killOp[id])]_vars

C6_Witness ==
  \E id \in Ids : /\ Len(killLog[id]) >= 2
                  /\ killLog[id][1] = TRUE
                  /\ killLog[id][2] = FALSE
                  /\ sessions[id].status \in Forced

\* C7: if task A is appended to the queue before task B and both are
\* admitted, A's session is created before B's; a capacity failure on the head
\* entry leaves the queue as it is and the next attempt is for the same head.
C7_Fifo ==
  /\ [](\A i, j \in DOMAIN queuedSeq :
          (i < j /\ queuedSeq[i] \in Range(admitted) /\ queuedSeq[j] \in Range(admitted))
          => Pos(admitted, queuedSeq[i]) < Pos(admitted, queuedSeq[j]))
  /\ [][\A t \in Tasks :
          /\ (call[t].by = "drain" /\ call[t].pc # "capacity" /\ call'[t].pc = "capacity")
               => (queue' = queue /\ queue[1].task = t)
          /\ (call[t].by = "drain" /\ call[t].pc = "capacity" /\ call'[t] # call[t])
               => (queue' = queue /\ queue[1].task = t
                   /\ call'[t].by = "drain" /\ call'[t].pc \in InitPcs)]_vars

C7_Witness ==
  /\ Len(queuedSeq) >= 2
  /\ queuedSeq[1] \in Range(admitted)
  /\ queuedSeq[2] \in Range(admitted)
  /\ \E t \in Tasks : call[t].by = "drain" /\ call[t].pc = "returned"

\* C8: enqueue(task) resolves with {queued: false, sessionId} exactly when its
\* immediate spawnSession call returns a session id, and with {queued: true,
\* queueId, position} exactly when that call fails for capacity; position is
\* the 1-based index of the new entry in the queue as enqueue returns.
AttemptEnds(t) ==
  /\ call[t].by = "enqueue"
  /\ ~Settled(t)
  /\ call'[t].by = "drain" \/ call'[t].pc \in {"returned", "capacity", "error"}

C8_EnqueueResult ==
  [][\A t \in Tasks :
       /\ (AttemptEnds(t) /\ call[t].pc = "running")
            <=> (enqResult[t] = NoResult
                 /\ enqResult'[t] = EnqResult("spawned", call[t].sid, 0, 0))
       /\ (AttemptEnds(t) /\ call[t].pc \in InitPcs /\ AtCapacity(sessions'))
            <=> (enqResult[t] = NoResult /\ enqResult'[t].kind = "queued")
       /\ (enqResult[t] = NoResult /\ enqResult'[t].kind = "queued")
            => /\ enqResult'[t].queued
               /\ enqResult'[t].position \in DOMAIN queue'
               /\ enqResult'[t].position = Len(queue')
               /\ queue'[enqResult'[t].position].task = t
               /\ queue'[enqResult'[t].position].id = enqResult'[t].queueId
               /\ IsPrefix(queue, queue')
       /\ (enqResult[t] # NoResult) => enqResult'[t] = enqResult[t]
    ]_vars

C8_Witness ==
  /\ enqResult[1] = EnqResult("spawned", 1, 0, 0)
  /\ enqResult[2].kind = "queued"
  /\ enqResult[2].position = 1

C10_Recovery ==
  \A id \in recovered :
    (initialized /\ disk[id].status # NoFile /\ disk[id].status.status \in NonTerminal)
    => /\ checkStatus(id) # NullResult
       /\ checkStatus(id).status \in NonTerminal
       /\ checkStatus(id).status = disk[id].status.status
       /\ Present(id)
       /\ ~sessions[id].child

C10_Witness ==
  \E id \in recovered :
    /\ initialized
    /\ disk[id].status # NoFile
    /\ disk[id].status.status = RUNNING
    /\ checkStatus(id) # NullResult
    /\ checkStatus(id).status = RUNNING
    /\ ~sessions[id].child

\* C11: when a cleanup() call returns, every session whose record is terminal
\* (completed, failed, killed or timeout) with a completion time older than
\* the retention window is gone from the sessions directory and from the Map.
C11_CleanupRemovesTerminal ==
  [][(cleanOp.pc # "idle" /\ cleanOp'.pc = "idle" /\ restarts' = restarts)
       => \A id \in Ids :
            (/\ disk[id].dir
             /\ checkStatus(id) # NullResult
             /\ checkStatus(id).status \in Terminal
             /\ OlderThan(checkStatus(id).completedAt, cleanOp.cutoff))
            => (~disk'[id].dir /\ sessions'[id] = NoSession)]_vars

C13_TimeoutEnforced ==
  [][\A id \in Ids :
       (timer[id] = "armed" /\ timer'[id] = "fired")
       => IF Running(id)
          THEN /\ proc'[id].signaled
               /\ sessions'[id].status = TIMEOUT
               /\ killOp'[id] # NoOp
               /\ killOp'[id].status = TIMEOUT
               /\ killOp'[id].killReason = "timeout"
          ELSE /\ sessions'[id] = sessions[id]
               /\ disk'[id] = disk[id]
               /\ proc'[id] = proc[id]
               /\ killOp'[id] = killOp[id]]_vars

\* C14: for a session that is never killed and never times out, once its
\* worker has exited with code c the status eventually is 'completed' if c = 0
\* and 'failed' otherwise, and result.json (what getResult returns) eventually
\* holds success = (c = 0) and exitCode = c.
ForcedStatus(id) == Present(id) /\ sessions[id].status \in Forced

C14_ExitRecorded ==
  \A id \in Ids : \A c \in ExitCodes :
    ([](~ForcedStatus(id)))
    => ((proc[id].state = "exited" /\ proc[id].code = c)
          ~> (/\ Present(id)
              /\ sessions[id].status = FinalStatus(c)
              /\ getResult(id) # NullResult
              /\ getResult(id).success = (c = 0)
              /\ getResult(id).exitCode = c))

\* C15: killSession returns false, changing nothing, exactly when the
\* session is not in 'running' status; on a running session it signals the
\* process group, sets the status to 'timeout' for the reason 'timeout' and to
\* 'killed' for any other reason, writes the record and returns true.
C15_KillIffRunning ==
  [][\A id \in Ids :
       /\ (killLog'[id] = Append(killLog[id], FALSE))
            => /\ ~Running(id)
               /\ sessions'[id] = sessions[id]
               /\ disk'[id] = disk[id]
               /\ proc'[id] = proc[id]
       /\ (killOp[id] = NoOp /\ killOp'[id] # NoOp)
            => /\ Running(id)
               /\ proc'[id].signaled
               /\ sessions'[id].status =
                    (IF killOp'[id].killReason = "timeout" THEN TIMEOUT ELSE KILLED)
               /\ killOp'[id].status = sessions'[id].status
       /\ (killLog'[id] = Append(killLog[id], TRUE))
            => /\ disk'[id].status = killOp[id]
               /\ disk'[id].status.status \in Forced]_vars

\* No spawnSession call is in flight for the session.
SpawnEnded(id) == \A t \in Tasks : call[t].sid = id => Settled(t)

\* C16: once the spawnSession call has ended, a session whose worker program
\* could not be started is recorded as 'failed', in status.json and in the Map
\* (it is not left 'spawning' or 'running').
C16_LaunchFailureRecorded ==
  \A id \in Ids :
    (proc[id].state = "nolaunch" /\ SpawnEnded(id))
    => /\ disk[id].status # NoFile
       /\ disk[id].status.status = FAILED
       /\ Present(id) => sessions[id].status = FAILED

\* C17: whatever write fails, once the spawnSession call has ended a session
\* of this controller whose worker was launched has its exit listener and its
\* timeout registered, and its in-memory status is terminal as soon as the
\* worker's exit is delivered.
C17_StorageFailureKeepsLifecycle ==
  /\ [](\A id \in Ids :
          (proc[id].state \in {"alive", "exited"} /\ SpawnEnded(id) /\ id \notin recovered)
          => (listener[id] /\ timer[id] # "none"))
  /\ [][\A id \in Ids :
          (/\ proc[id].state = "alive" /\ proc'[id].state = "exited"
           /\ SpawnEnded(id) /\ id \notin recovered /\ Present(id))
          => sessions'[id].status \in Terminal]_vars

\* C18: when the spawnSession call of enqueue(task) fails with an error that
\* is not the capacity error (a file-system operation of the call fails),
\* enqueue rethrows it: nothing is appended to the queue and no drain loop is
\* started.
C18_EnqueueRethrows ==
  [][\A t \in Tasks :
       (AttemptEnds(t) /\ faults' = faults + 1)
       => /\ call'[t].pc = "error"
          /\ call'[t].by = "enqueue"
          /\ enqResult'[t] = EnqResult("thrown", 0, 0, 0)
          /\ queue' = queue
          /\ queuedSeq' = queuedSeq
          /\ processing' = processing
          /\ drain' = drain
          /\ \A u \in Tasks \ {t} : call'[u] = call[u]]_vars

C18_Witness ==
  \E t \in Tasks : /\ call[t].by = "enqueue"
                   /\ call[t].pc = "error"
                   /\ enqResult[t].kind = "thrown"
                   /\ t \notin Range(queuedSeq)
                   /\ \A i \in DOMAIN queue : queue[i].task # t

\* C20: once the worker's exit is recorded (status completed or failed),
\* neither the in-memory record nor status.json afterwards holds 'killed' or
\* 'timeout' instead, whether killSession is called after the exit was
\* recorded or its status write is still in flight when the exit is recorded.
C20_KillNeverOverwritesExit ==
  [][\A id \in Ids :
       /\ (Present(id) /\ sessions'[id] # NoSession /\ sessions[id].status \in Natural)
            => sessions'[id].status \notin Forced
       /\ (disk[id].status # NoFile /\ disk'[id].status # NoFile
              /\ disk[id].status.status \in Natural)
            => disk'[id].status.status \notin Forced]_vars

\* C19: what listSessions(filter) returns holds no id twice, holds only
\* sessions whose status and project are those of the filter, omits no session
\* that matched the filter all through the call, and is ordered by startedAt,
\* descending.
C19_ListSessions ==
  [][(listOp.pc # "idle" /\ listOp'.pc = "idle" /\ restarts' = restarts)
       => LET out == listOp'.out
              f == listOp.filter
          IN /\ \A i, j \in DOMAIN out : out[i].id = out[j].id => i = j
             /\ \A i \in DOMAIN out :
                  /\ f.status = NoFilter \/ out[i].status = f.status
                  /\ f.projectId = NoFilter \/ ProjectOf(out[i].task) = f.projectId
             /\ \A id \in listOp'.must : \E i \in DOMAIN out : out[i].id = id
             /\ \A i, j \in DOMAIN out : i < j => out[i].startedAt >= out[j].startedAt]_vars

\* C21: the recovery scan of init() loads into the Map exactly the status
\* documents whose status is non-terminal (pending, spawning, running): after
\* the scan has read the status.json of a directory, the session is in the Map
\* if and only if that document exists with a non-terminal status, and no
\* document with a terminal status (completed, failed, killed, timeout) is
\* loaded.
C21_ScanLoadsNonTerminalOnly ==
  [][\A t \in Tasks : \A id \in Ids :
       (/\ call[t].pc = "init_scan" /\ call[t].cur = id
        /\ call'[t] # call[t]
        /\ restarts' = restarts)
       => (sessions'[id] # NoSession
             <=> (disk[id].status # NoFile /\ disk[id].status.status \in NonTerminal))]_vars

\* C22: a session recovered by the scan without a process handle does not
\* change unless a caller acts on it: no step changes its record in the Map or
\* its status.json, no timeout is scheduled for it, and neither handleExit
\* nor killSession is at work on it, whatever its worker does.
C22_OrphanFrozen ==
  [][\A id \in recovered :
       (Present(id) /\ ~sessions[id].child /\ restarts' = restarts)
       => /\ sessions'[id] = sessions[id]
          /\ disk'[id].status = disk[id].status
          /\ timer'[id] = "none"
          /\ exitOp'[id] = NoOp
          /\ killOp'[id] = NoOp]_vars

\* The worker of a recovered session has ended and the session is still
\* 'running', in the Map and in status.json.
C22_Witness ==
  \E id \in recovered :
    /\ Present(id)
    /\ ~sessions[id].child
    /\ sessions[id].status = RUNNING
    /\ proc[id].state = "exited"
    /\ disk[id].status # NoFile
    /\ disk[id].status.status = RUNNING

\* C23: a failure while deleting one session's directory does not keep the
\* cleanup() run from deleting the other eligible records: when the call
\* returns, no directory entry of its listing that it has not yet looked at
\* holds a completed or failed record older than the cutoff.  (The call always
\* returns: no failure reaches the caller.)
C23_CleanupSkipsFailures ==
  [][(cleanOp.pc # "idle" /\ cleanOp'.pc = "idle" /\ restarts' = restarts)
     => \A e \in cleanOp.scan : ~Cleans(checkStatus(e), cleanOp.cutoff)]_vars

\* C24: in every state in which a worker process exists (or has existed) for a
\* session, the session's task.json and status.json are on disk, and the
\* first status ever written to status.json is 'pending'.
C24_DurableBeforeLaunch ==
  \A id \in Ids :
    proc[id].state # "none"
    => /\ disk[id].dir
       /\ disk[id].taskFile
       /\ disk[id].status # NoFile
       /\ hist[id] # <<>>
       /\ hist[id][1] = PENDING

\* C25: the status of a session is 'timeout', in the Map, in the write
\* killSession has in flight or in status.json, only in states in which the
\* termination signal has already been sent to the worker's process group.
C25_SignalBeforeTimeout ==
  \A id \in Ids :
    /\ (Present(id) /\ sessions[id].status = TIMEOUT) => proc[id].signaled
    /\ (killOp[id] # NoOp /\ killOp[id].status = TIMEOUT) => proc[id].signaled
    /\ (disk[id].status # NoFile /\ disk[id].status.status = TIMEOUT) => proc[id].signaled

\* A timeout has fired on a running session and its record is written.
C25_Witness ==
  \E id \in Ids :
    /\ timer[id] = "fired"
    /\ Present(id)
    /\ sessions[id].status = TIMEOUT
    /\ disk[id].status # NoFile
    /\ disk[id].status.status = TIMEOUT
    /\ proc[id].signaled

\* The tasks of the entries of queue q.
QueuedTasks(q) == {q[i].task : i \in DOMAIN q}

\* C26: when the drain loop's spawnSession call for the head entry fails with
\* an error that is not the capacity error, the head entry is removed, the
\* loop goes on to the next entry at once (or ends, with an empty queue), and
\* the removed entry is never in the queue or attempted again; when the call
\* fails for capacity the entry stays at the head, the loop waits, and the
\* attempt after the wait is for the same entry.
C26_DrainDropsFailedHead ==
  [][\A t \in Tasks :
       /\ (call[t].by = "drain" /\ ~Settled(t) /\ call'[t] # call[t]
           /\ faults' = faults + 1)
            => /\ call'[t].by = "drain"
               /\ call'[t].pc = "error"
               /\ queue # <<>>
               /\ queue[1].task = t
               /\ queue' = Tail(queue)
               /\ t \notin QueuedTasks(queue')
               /\ IF queue' = <<>>
                  THEN ~processing' /\ drain' = "idle"
                  ELSE /\ processing'
                       /\ drain' = "spawn"
                       /\ call'[queue'[1].task].by = "drain"
                       /\ call'[queue'[1].task].pc \in InitPcs
       /\ (call[t].by = "drain" /\ call[t].pc = "error")
            => (call'[t] = call[t] /\ t \notin QueuedTasks(queue'))
       /\ (call[t].by = "drain" /\ call[t].pc # "capacity" /\ call'[t].pc = "capacity")
            => (queue' = queue /\ queue[1].task = t /\ processing' /\ drain' = "backoff")
       /\ (call[t].by = "drain" /\ call[t].pc = "capacity" /\ call'[t] # call[t])
            => (drain = "backoff" /\ queue' = queue /\ queue[1].task = t
                /\ call'[t].by = "drain" /\ call'[t].pc \in InitPcs)]_vars

\* The drain loop has dropped an entry whose admission failed and is
\* attempting the entry that was behind it.
C26_Witness ==
  \E t \in Tasks :
    /\ call[t].by = "drain"
    /\ call[t].pc = "error"
    /\ queue # <<>>
    /\ call[queue[1].task].by = "drain"
    /\ call[queue[1].task].pc \in InitPcs \cup {"mkdir"}

\* C27: at most one processQueue call is inside its loop at any time, and it
\* is there exactly while `processing` is set; a processQueue call made by
\* enqueue while `processing` is set starts no spawnSession call and leaves
\* the loop that is active as it is.
C27_SingleDrainLoop ==
  /\ [](/\ loops \in {0, 1}
        /\ processing <=> loops = 1
        /\ loops = 0 => drain = "idle"
        /\ Cardinality({t \in Tasks : call[t].by = "drain" /\ ~Settled(t)}) <= loops)
  /\ [][\A t \in Tasks :
          (processing /\ Len(queue') = Len(queue) + 1 /\ queue'[Len(queue')].task = t)
          => /\ processing'
             /\ loops' = loops
             /\ drain' = drain
             /\ \A u \in Tasks \ {t} : call'[u] = call[u]
             /\ call'[t].pc = "capacity"]_vars

\* An enqueue call has appended an entry while the drain loop was waiting on
\* the admission of the head entry.
C27_Witness ==
  /\ processing
  /\ loops = 1
  /\ Len(queue) = 2
  /\ \E t \in Tasks : call[t].by = "drain" /\ ~Settled(t) /\ queue[1].task = t
  /\ call[queue[2].task].by = "enqueue"
  /\ call[queue[2].task].pc = "capacity"

\* The number of sessions created for task t.
Admissions(t) == Cardinality({i \in DOMAIN admitted : admitted[i] = t})

\* C28: no task is admitted as a session twice, and an entry leaves the queue
\* only from the head, in the step in which the drain loop's spawnSession call
\* for it returns a session id or fails with an error that is not the
\* capacity error; a capacity failure removes nothing.
C28_EntryAdmittedOnce ==
  /\ [](\A t \in Tasks : Admissions(t) <= 1)
  /\ [][\A t \in Tasks :
          /\ (t \in QueuedTasks(queue) /\ t \notin QueuedTasks(queue'))
               => /\ queue[1].task = t
                  /\ queue' = Tail(queue)
                  /\ call[t].by = "drain"
                  /\ ~Settled(t)
                  /\ call'[t].by = "drain"
                  /\ call'[t].pc \in {"returned", "error"}
                  /\ call'[t].pc = "returned" => Admissions(t) = 1
          /\ (call[t].by = "drain" /\ ~Settled(t) /\ call'[t].pc = "capacity")
               => (queue' = queue /\ Admissions(t) = 0)]_vars

\* Two entries were queued; the first was admitted by the drain loop, which
\* left the queue with the second entry only.
C28_Witness ==
  /\ Len(queuedSeq) = 2
  /\ Admissions(queuedSeq[1]) = 1
  /\ call[queuedSeq[1]].by = "drain"
  /\ call[queuedSeq[1]].pc = "returned"
  /\ Len(queue) = 1
  /\ queue[1].task = queuedSeq[2]
  /\ call[queuedSeq[2]].pc = "capacity"

\* C29: result.json is there only for a session whose status.json holds a
\* terminal status, and it is written after handleExit's final status was
\* written to status.json; getResult answers null where there is no
\* result.json and getOutput answers '' where there is no output.txt, both
\* also for an identifier no session ever had.
C29_ResultOnlyWhenTerminal ==
  /\ [](\A id \in Ids :
          /\ getResult(id) # NullResult
               => (disk[id].status # NoFile /\ disk[id].status.status \in Terminal)
          /\ disk[id].result = NoFile => getResult(id) = NullResult
          /\ disk[id].output = NoFile => getOutput(id) = <<>>
          /\ ~disk[id].dir => (getResult(id) = NullResult /\ getOutput(id) = <<>>))
  /\ [][\A id \in Ids :
          (disk[id].result = NoFile /\ disk'[id].result # NoFile)
          => /\ disk[id].status # NoFile
             /\ disk[id].status.status \in Terminal
             /\ FinalStatus(disk'[id].result.exitCode) \in Range(hist[id])]_vars

\* A session has its result document, a terminal status and some output on
\* disk, and another identifier is unknown.
C29_Witness ==
  \E id \in Ids :
    /\ getResult(id) # NullResult
    /\ disk[id].status.status \in Terminal
    /\ getOutput(id) # <<>>
    /\ \E other \in Ids : ~disk[other].dir /\ getResult(other) = NullResult

\* C30: the `output` of a session's result document holds every chunk its
\* handlers have added to the session's buffer, those delivered after the
\* 'exit' event included.
C30_ResultHoldsAllOutput ==
  \A id \in Ids :
    disk[id].result # NoFile
    => /\ "output" \in DOMAIN disk[id].result
       /\ \A i \in DOMAIN outbuf[id] :
            i \in DOMAIN disk[id].result.output /\ disk[id].result.output[i] = outbuf[id][i]

\* How far a status is along the lifecycle.
Rank(st) ==
  CASE st = PENDING -> 0
    [] st = SPAWNING -> 1
    [] st = RUNNING -> 2
    [] OTHER -> 3

\* C31: the status in status.json is never ahead of the status the session
\* has reached in memory: for every session in the Map, the status on disk is
\* no further along the lifecycle than the status of the in-memory record.
C31_DiskNeverAhead ==
  \A id \in Ids :
    (Present(id) /\ disk[id].status # NoFile)
    => Rank(disk[id].status.status) <= Rank(sessions[id].status)

\* C32: a session's buffer only grows, by chunks appended at its end;
\* output.txt never shrinks, holds only chunks of the buffer, and holds them
\* in the order in which the buffer holds them.
C32_OutputOrderPreserved ==
  /\ [](\A id \in Ids :
          LET file == getOutput(id) IN
          /\ \A i \in DOMAIN file : file[i] \in Range(outbuf[id])
          /\ \A i, j \in DOMAIN file :
               i < j => Pos(outbuf[id], file[i]) < Pos(outbuf[id], file[j]))
  /\ [][\A id \in Ids :
          /\ IsPrefix(outbuf[id], outbuf'[id])
          /\ IsPrefix(getOutput(id), getOutput(id)')]_vars

\* C33: a session spawned by this controller whose in-memory status is
\* 'running' has its process handle in its in-memory record.
C33_RunningHasHandle ==
  \A id \in Ids :
    (Present(id) /\ id \notin recovered /\ sessions[id].status = RUNNING)
    => sessions[id].child

\* C34: a spawnSession call never takes as its session id a value for which
\* a session directory or an in-memory session already exists, and no
\* status.json is rewritten for another task.
C34_IdsNeverReused ==
  [][\A t \in Tasks : \A id \in Ids :
       /\ (call[t].pc # "mkdir" /\ call'[t].pc = "mkdir" /\ call'[t].sid = id)
            => (~disk[id].dir /\ ~Present(id))
       /\ (disk[id].status # NoFile /\ disk'[id].status # NoFile)
            => disk'[id].status.task = disk[id].status.task]_vars

\* C35: no exit of a worker this controller launched is missed: in the step
\* in which the worker ends, handleExit sets the session's final status and
\* starts its writes, and handleExit starts at no other step.
C35_NoExitMissed ==
  [][\A id \in Ids :
       /\ (proc[id].state = "alive" /\ proc'[id].state = "exited")
            => /\ exitOp'[id] # NoOp
               /\ Present(id)'
               /\ sessions'[id].status = FinalStatus(proc'[id].code)
       /\ (exitOp[id] = NoOp /\ exitOp'[id] # NoOp)
            => (proc[id].state = "alive" /\ proc'[id].state = "exited")]_vars

\* No worker is running, launched by this controller or left over from the
\* one before.
NoWorkerRunning == \A id \in Ids : proc[id].state \notin {"alive", "orphan"}

\* C36: after the restart of the controller, if from some point on no worker
\* is running any more, a task submitted through enqueue is eventually
\* admitted as a session.
C36_AdmissionAfterRecovery ==
  <>[]NoWorkerRunning
  => \A t \in Tasks :
       (restarts = MaxRestarts /\ call[t].by = "enqueue") ~> (t \in Range(admitted))

\* C37: a task that enqueue was called with while entries were waiting in the
\* queue gets its session only as the head entry of the queue, from the drain
\* loop, that is, after every entry that was waiting when it arrived.
C37_NewcomerNotAhead ==
  [][\A t \in behind :
       (admitted' = Append(admitted, t) /\ restarts' = restarts)
       => (queue # <<>> /\ queue[1].task = t /\ call[t].by = "drain")]_vars

\* C38: whenever the queue holds an entry a drain loop is active
\* (`processing` is set and a processQueue call is inside its loop), and the
\* step in which the drain loop stops leaves the queue empty.
C38_NoStrandedEntry ==
  /\ [](queue # <<>> => (processing /\ loops = 1 /\ drain # "idle"))
  /\ [][(processing /\ ~processing' /\ restarts' = restarts) => queue' = <<>>]_vars

\* Two entries wait while the drain loop sits out a capacity rejection.
C38_Witness ==
  /\ Len(queue) = 2
  /\ processing
  /\ loops = 1
  /\ drain = "backoff"

\* What a step of a spawnSession call leaves alone while the call has no
\* session id: ids, session directories, workers, listeners, timers and the
\* recorded histories.
NoSpawnEffect ==
  /\ nextId' = nextId
  /\ admitted' = admitted
  /\ disk' = disk
  /\ proc' = proc
  /\ listener' = listener
  /\ timer' = timer
  /\ hist' = hist

\* C39 as stated: the step in which a spawnSession call is rejected for
\* capacity allocates no id, creates no directory or record, launches no
\* worker, schedules no timer and leaves the Map as it was.
C39_RejectionNoEffect ==
  [][\A t \in Tasks :
       (call[t].pc # "capacity" /\ call'[t].pc = "capacity" /\ restarts' = restarts)
       => (NoSpawnEffect /\ sessions' = sessions)]_vars

\* C39 as amended: the same, except that the Map may have gained the record
\* the call's own init() has just read from status.json, with no process
\* handle; every other entry of the Map is as it was.
C39_RejectionFrame ==
  [][\A t \in Tasks :
       (call[t].pc # "capacity" /\ call'[t].pc = "capacity" /\ restarts' = restarts)
       => /\ NoSpawnEffect
          /\ \A id \in Ids :
               \/ sessions'[id] = sessions[id]
               \/ /\ call[t].pc = "init_scan"
                  /\ call[t].cur = id
                  /\ disk[id].status # NoFile
                  /\ sessions'[id].status = disk[id].status.status
                  /\ sessions'[id].task = disk[id].status.task
                  /\ ~sessions'[id].child]_vars

\* After a restart a spawnSession call has been rejected for capacity, the
\* slot being held by a record its init() loaded.
C39_Witness ==
  \E t \in Tasks : \E id \in recovered :
    /\ call[t].pc = "capacity"
    /\ Present(id)
    /\ sessions[id].status = RUNNING
    /\ ~sessions[id].child

\* C40: every rewrite of an existing status.json carries the id, the task
\* summary, the projectId and startedAt of the record it replaces, and its
\* pid once the record has one (the 'running' rewrite of spawnSession is the
\* one that assigns it).
C40_IdentityPreserved ==
  [][\A id \in Ids :
       (disk[id].status # NoFile /\ disk'[id].status # NoFile)
       => /\ disk'[id].status.id = disk[id].status.id
          /\ disk'[id].status.task = disk[id].status.task
          /\ disk'[id].status.projectId = disk[id].status.projectId
          /\ disk'[id].status.startedAt = disk[id].status.startedAt
          /\ disk[id].status.pid # Null
             => disk'[id].status.pid = disk[id].status.pid]_vars

=============================================================================
